---------------------------- MODULE Spec2Model ----------------------------
(***************************************************************************)
(* Model of Serial2Oled-scoll_v4.ino: the serial command dispatcher        *)
(* (handleCommand), the time source (getEpochNow, getBrokenDownWithTZ,     *)
(* getClockString, getDateStringISO), the line reader (handleSerial), the  *)
(* scheduler (loop) and the device state they act on.                      *)
(*                                                                         *)
(* A String is a sequence of one-character strings.  The history variables *)
(* (lastLine, seed, nCmd, calls, eaten, at, dueFrame, dueScroll, dueNtp,   *)
(* run, win) record what happened; the program never reads them.           *)
(***************************************************************************)
EXTENDS Integers, Sequences, FiniteSets, TLC

\* ---- Layout (program constants) ----
W == 72
GAP == 16
FRAME_INTERVAL_MS == 33
CLOCK_FRAME_MS == 200
EpochThreshold == 1700000000
SecondsPerDay == 86400
ConnectTimeoutMs == 8000
NtpCheckMs == 2000
LongMax == 2147483647

\* ---- Bounds of the model ----
\* width in bits of the millis() tick counter as modelled (32 on the device)
TickBits == 16
\* Advance is enabled while the uptime stays within MaxUptime milliseconds
MaxUptime == 2000
\* tz/n is dispatched for every n in -MaxTz..MaxTz
MaxTz == 16
\* Spec dispatches at most MaxCmds lines in a run
MaxCmds == 3
\* s/n is dispatched for every n in 0..MaxSpeed
MaxSpeed == 11
\* SpecLoop begins iterations of loop() until MaxLoopUptime milliseconds after setup()
MaxLoopUptime == 400
\* SpecScroll begins iterations of loop() until MaxScrollUptime milliseconds after setup()
MaxScrollUptime == 20000

TickModulus == 2 ^ TickBits

\* ---------- Arduino String helpers ----------
NUL == "NUL"
DigitChars == {"0", "1", "2", "3", "4", "5", "6", "7", "8", "9"}
SpaceChars == {" ", "\t"}

DigitVal(c) ==
  CASE c = "0" -> 0 [] c = "1" -> 1 [] c = "2" -> 2 [] c = "3" -> 3
    [] c = "4" -> 4 [] c = "5" -> 5 [] c = "6" -> 6 [] c = "7" -> 7
    [] c = "8" -> 8 [] c = "9" -> 9

DigitChar(d) ==
  CASE d = 0 -> "0" [] d = 1 -> "1" [] d = 2 -> "2" [] d = 3 -> "3"
    [] d = 4 -> "4" [] d = 5 -> "5" [] d = 6 -> "6" [] d = 7 -> "7"
    [] d = 8 -> "8" [] d = 9 -> "9"

\* String::startsWith
StartsWith(s, p) ==
  /\ Len(s) >= Len(p)
  /\ SubSeq(s, 1, Len(p)) = p

\* String::charAt (0-based; out of range yields the NUL character)
CharAt(s, i) == IF i < Len(s) THEN s[i + 1] ELSE NUL

\* String::substring(left, right) (0-based, right exclusive)
Substring(s, left, right) ==
  LET l == IF left > right THEN right ELSE left
      r0 == IF left > right THEN left ELSE right
      r == IF r0 > Len(s) THEN Len(s) ELSE r0
  IN  IF l >= Len(s) THEN << >> ELSE SubSeq(s, l + 1, r)

\* String::substring(left)
SubstringFrom(s, left) == Substring(s, left, Len(s))

RECURSIVE SkipSpace(_)
SkipSpace(s) ==
  IF s # << >> /\ Head(s) \in SpaceChars THEN SkipSpace(Tail(s)) ELSE s

RECURSIVE ParseDigits(_, _)
ParseDigits(s, acc) ==
  IF s = << >> \/ Head(s) \notin DigitChars
  THEN acc
  ELSE LET d == DigitVal(Head(s))
       IN  IF acc > (LongMax - d) \div 10
           THEN LongMax
           ELSE ParseDigits(Tail(s), acc * 10 + d)

\* String::toInt: atol of the buffer (leading blanks, optional sign, the
\* longest run of digits; 0 when there is none)
ToInt(s) ==
  LET s1 == SkipSpace(s)
      neg == s1 # << >> /\ Head(s1) = "-"
      s2 == IF s1 # << >> /\ Head(s1) \in {"-", "+"} THEN Tail(s1) ELSE s1
      v == ParseDigits(s2, 0)
  IN  IF neg THEN 0 - v ELSE v

RECURSIVE Dec(_)
\* decimal digits of n >= 0
Dec(n) == IF n < 10 THEN << DigitChar(n) >> ELSE Dec(n \div 10) \o << DigitChar(n % 10) >>

RECURSIVE ZeroPad(_, _)
ZeroPad(s, width) == IF Len(s) >= width THEN s ELSE ZeroPad(<< "0" >> \o s, width)

\* snprintf(b, size, "%0<width>d", v): zero-padded to width (the sign counts),
\* cut to size - 1 characters
FormatPadded(v, width, size) ==
  LET full == IF v < 0
              THEN << "-" >> \o ZeroPad(Dec(0 - v), width - 1)
              ELSE ZeroPad(Dec(v), width)
  IN  SubSeq(full, 1, IF Len(full) > size - 1 THEN size - 1 ELSE Len(full))

two(v) == FormatPadded(v, 2, 3)
four(v) == FormatPadded(v, 4, 5)

\* ---------- State ----------
VARIABLES
  msg, inbuf, tickerEnabled, scrolling, scroll_interval_ms, x, text_w,
  clockMode, currentFont,
  manualClock, manualEpochBase, manualSetMillis, manualDateKnown,
  tzOffsetMinutes,
  WIFI_SSID, WIFI_PASS, wifiOK,
  t_now, t_nextFrame, t_nextScroll, t_nextNtpCheck,
  prefs,       \* the "net" namespace of Preferences: [ssid, pass]
  wifiStatus,  \* WiFi.status() == WL_CONNECTED
  uptime,      \* milliseconds since boot (unwrapped)
  sysOffset,   \* time(nullptr) = sysOffset + uptime / 1000
  lastLine,    \* history: argument of the latest handleCommand call
  seed,        \* history: [at, tod] uptime and time of day of the latest valid ts/ line
  nCmd,        \* history: handleCommand calls counted by CountedDispatch
  host,        \* the chunks of bytes the serial host has yet to send
  rx,          \* the UART receive queue: bytes Serial.available() counts
  pc,          \* where loop() stands: "top", "serial", "clear"
  calls,       \* history: the arguments of the handleCommand calls of handleSerial
  eaten,       \* history: the bytes Serial.read() has returned
  rendered,    \* what the latest loop() iteration sent to the display
  at,          \* history: the uptime when t_now was sampled
  dueFrame,    \* history: t_nextFrame as an uptime (unwrapped)
  dueScroll,   \* history: t_nextScroll as an uptime (unwrapped)
  dueNtp,      \* history: t_nextNtpCheck as an uptime (unwrapped)
  run,         \* history: [t0, I, steady, n] the scroll steps since setup() at t0
  win          \* history: [on, start, I, n] the scroll steps since scrolling resumed

tickerVars == << msg, x, text_w, currentFont, tickerEnabled, scrolling, scroll_interval_ms >>
manualVars == << manualClock, manualEpochBase, manualSetMillis, manualDateKnown >>
wifiVars == << WIFI_SSID, WIFI_PASS, wifiOK, prefs, wifiStatus >>
schedVars == << inbuf, t_now, t_nextFrame, t_nextScroll, t_nextNtpCheck >>
envVars == << uptime, sysOffset >>
histVars == << lastLine, seed, nCmd >>
serialVars == << rx, pc, calls, eaten >>
frameVars == << host, rendered, at, dueFrame, dueScroll, dueNtp, run, win >>
loopVars == << serialVars, frameVars >>
vars == << tickerVars, clockMode, tzOffsetMinutes, manualVars, wifiVars, schedVars,
           envVars, histVars, loopVars >>

F_SMALL == 1
F_MEDIUM == 2
F_LARGE == 3

InitMsg == << "H", "e", "i", "!", " ", "æ", " ", "ø", " ", "å", " ", "Æ", " ", "Ø", " ", "Å" >>

\* ---------- Platform readings ----------
\* millis(): the uptime truncated to the tick counter's width
Millis == uptime % TickModulus

\* time(nullptr): seconds of the system clock
SysTime == sysOffset + uptime \div 1000

\* a + b in the tick counter's unsigned arithmetic
TickAdd(a, b) == (a + b) % TickModulus

\* a - b in the tick counter's unsigned arithmetic
TickSub(a, b) == (a - b) % TickModulus

\* ---------- Helpers ----------
\* characters the Helvetica _tf fonts hold no glyph for (they draw nothing)
NoGlyph == {"\t", NUL}
NarrowGlyph == {"i", "!", " ", ":", "/", "1", "-"}

\* advance width of one glyph in font f (u8g2 font tables, abstracted)
GlyphAdvance(c, f) ==
  IF c \in NoGlyph THEN 0
  ELSE IF c \in NarrowGlyph THEN 2 + f
  ELSE 5 + f

RECURSIVE getUTF8Width(_, _)
getUTF8Width(s, f) ==
  IF s = << >> THEN 0 ELSE GlyphAdvance(Head(s), f) + getUTF8Width(Tail(s), f)

\* computeWidth(): the value it leaves in text_w for message m and font f
computeWidth(m, f) ==
  LET w == getUTF8Width(m, f)
  IN  IF w < 1 THEN 1 ELSE w

\* faulty variant: the n >= 9 case is missing
speedToInterval_Linear(n) ==
  IF n <= 0 THEN 0 ELSE 110 - n * 10

speedToInterval(n) ==
  IF n <= 0 THEN 0
  ELSE IF n >= 9 THEN 5
  ELSE 110 - n * 10

epochValid(e) == e >= EpochThreshold

\* faulty variant: the manual clock is consulted before the system epoch
getEpochNow_ManualFirst ==
  IF manualClock
  THEN manualEpochBase + TickSub(Millis, manualSetMillis) \div 1000
  ELSE IF epochValid(SysTime) THEN SysTime ELSE -1

\* faulty variant: the elapsed ticks are not divided by 1000
getEpochNow_Millis ==
  LET now == SysTime IN
  IF epochValid(now) THEN now
  ELSE IF manualClock THEN manualEpochBase + TickSub(Millis, manualSetMillis)
  ELSE -1

\* faulty variant: the elapsed ticks are a signed difference of the two ticks
getEpochNow_Signed ==
  LET now == SysTime IN
  IF epochValid(now) THEN now
  ELSE IF manualClock
       THEN LET elapsed == (Millis - manualSetMillis) \div 1000
            IN  IF manualEpochBase = 0 THEN elapsed ELSE manualEpochBase + elapsed
       ELSE -1

\* getEpochNow(): epoch seconds (UTC) from the system clock or the manual
\* clock; -1 when unknown
getEpochNow ==
  LET now == SysTime IN
  IF epochValid(now) THEN now
  ELSE IF manualClock
       THEN LET elapsed == TickSub(Millis, manualSetMillis) \div 1000
            IN  IF manualEpochBase = 0 THEN elapsed ELSE manualEpochBase + elapsed
       ELSE -1

\* gmtime_r: the calendar fields of epoch second e (proleptic Gregorian, UTC)
gmtime(e) ==
  LET days == e \div SecondsPerDay
      rem == e % SecondsPerDay
      z == days + 719468
      era == z \div 146097
      doe == z - era * 146097
      yoe == (doe - doe \div 1460 + doe \div 36524 - doe \div 146096) \div 365
      doy == doe - (365 * yoe + yoe \div 4 - yoe \div 100)
      mp == (5 * doy + 2) \div 153
      d == doy - (153 * mp + 2) \div 5 + 1
      m == IF mp < 10 THEN mp + 3 ELSE mp - 9
      y == yoe + era * 400 + (IF m <= 2 THEN 1 ELSE 0)
  IN  [tm_year |-> y - 1900, tm_mon |-> m - 1, tm_mday |-> d,
       tm_hour |-> rem \div 3600, tm_min |-> (rem % 3600) \div 60, tm_sec |-> rem % 60]

\* getBrokenDownWithTZ: [ok, tm]; tm is meaningful only when ok
getBrokenDownWithTZ ==
  LET e == getEpochNow IN
  IF e < 0 THEN [ok |-> FALSE, tm |-> gmtime(0)]
  ELSE [ok |-> TRUE, tm |-> gmtime(e + tzOffsetMinutes * 60)]

TimePlaceholder == << "-", "-", ":", "-", "-", ":", "-", "-" >>
DatePlaceholder == << "-", "-", "-", "-", "-", "-", "-", "-", "-", "-" >>

getClockString ==
  LET r == getBrokenDownWithTZ IN
  IF ~r.ok THEN TimePlaceholder
  ELSE two(r.tm.tm_hour) \o << ":" >> \o two(r.tm.tm_min) \o << ":" >> \o two(r.tm.tm_sec)

getDateStringISO ==
  LET r == getBrokenDownWithTZ IN
  IF ~r.ok THEN DatePlaceholder
  ELSE four(r.tm.tm_year + 1900) \o << "-" >> \o two(r.tm.tm_mon + 1) \o << "-" >> \o two(r.tm.tm_mday)

\* drawClockFrame(mode): the strings it draws (the date line only in mode 2)
drawClockFrame(mode) ==
  [time |-> getClockString,
   date |-> IF mode = 2 THEN getDateStringISO ELSE << >>]

\* ---------- Wi-Fi / NTP ----------
\* the wait loop of wifiConnect polls the link every PollMs milliseconds
PollMs == 50

\* faulty variant: the timeout compares the tick against t0 + 8000
WaitExpired_Absolute(t0, d) ==
  ~(TickAdd(t0, d) < TickAdd(t0, ConnectTimeoutMs))

\* the wait loop's timeout test d ms after it began at tick t0:
\* millis() - t0 < 8000 no longer holds
WaitExpired(t0, d) ==
  ~(TickSub(TickAdd(t0, d), t0) < ConnectTimeoutMs)

\* the polls of the wait loop, as milliseconds since it began
Polls == { PollMs * k : k \in 0 .. (ConnectTimeoutMs \div PollMs + 1) }

\* how long the wait loop runs when the link never comes up: until the first
\* poll at which the timeout test ends it
WaitLength(t0) ==
  LET over == { d \in Polls : WaitExpired(t0, d) }
  IN  CHOOSE d \in over : \A e \in over : d <= e

\* how long the wait loop of wifiConnect may run: the link comes up at the
\* first poll, or the loop runs out
WifiWaits(t0) == {PollMs, WaitLength(t0)}

\* wifiConnect() called at tick t0 with WIFI_SSID = ssid while the link is
\* up or not: the possible (time spent, status read after the loop) outcomes
wifiConnect(ssid, up, t0) ==
  IF ssid = << >>
  THEN {[d |-> 0, ok |-> FALSE, link |-> up]}
  ELSE {[d |-> d, ok |-> TRUE, link |-> TRUE] : d \in WifiWaits(t0)}
         \cup {[d |-> WaitLength(t0), ok |-> FALSE, link |-> FALSE]}

\* ---------- Commands ----------
\* t/<c>: full-screen clock mode
\* faulty variant: t/ also stops the scroll
CmdClock_StopsScroll(line) ==
  LET c == IF Len(line) > 2 THEN CharAt(line, 2) ELSE "0" IN
  /\ clockMode' = IF c = "1" THEN 1 ELSE IF c = "2" THEN 2 ELSE 0
  /\ scrolling' = FALSE
  /\ UNCHANGED << msg, x, text_w, currentFont, tickerEnabled, scroll_interval_ms >>
  /\ UNCHANGED << tzOffsetMinutes, manualVars, wifiVars, schedVars, envVars >>

CmdClock(line) ==
  LET c == IF Len(line) > 2 THEN CharAt(line, 2) ELSE "0" IN
  /\ clockMode' = IF c = "1" THEN 1 ELSE IF c = "2" THEN 2 ELSE 0
  /\ UNCHANGED << tickerVars, tzOffsetMinutes, manualVars, wifiVars, schedVars, envVars >>

\* tz/<hours>
\* faulty variant: the upper clamp is 12 hours
CmdTimezone_Clamp12(line) ==
  LET n0 == ToInt(SubstringFrom(line, 3))
      n1 == IF n0 < -12 THEN -12 ELSE n0
      n == IF n1 > 12 THEN 12 ELSE n1
  IN  /\ tzOffsetMinutes' = n * 60
      /\ clockMode' = 0
      /\ UNCHANGED << tickerVars, manualVars, wifiVars, schedVars, envVars >>

CmdTimezone(line) ==
  LET n0 == ToInt(SubstringFrom(line, 3))
      n1 == IF n0 < -12 THEN -12 ELSE n0
      n == IF n1 > 14 THEN 14 ELSE n1
  IN  /\ tzOffsetMinutes' = n * 60
      /\ clockMode' = 0
      /\ UNCHANGED << tickerVars, manualVars, wifiVars, schedVars, envVars >>

\* h/<c>: ticker visibility
\* faulty variant: h/ leaves clockMode alone
CmdTicker_KeepsClock(line) ==
  LET c == CharAt(line, 2) IN
  /\ tickerEnabled' = IF c = "1" THEN TRUE ELSE IF c = "0" THEN FALSE ELSE tickerEnabled
  /\ UNCHANGED clockMode
  /\ UNCHANGED << msg, x, text_w, currentFont, scrolling, scroll_interval_ms >>
  /\ UNCHANGED << tzOffsetMinutes, manualVars, wifiVars, schedVars, envVars >>

CmdTicker(line) ==
  LET c == CharAt(line, 2) IN
  /\ tickerEnabled' = IF c = "1" THEN TRUE ELSE IF c = "0" THEN FALSE ELSE tickerEnabled
  /\ clockMode' = 0
  /\ UNCHANGED << msg, x, text_w, currentFont, scrolling, scroll_interval_ms >>
  /\ UNCHANGED << tzOffsetMinutes, manualVars, wifiVars, schedVars, envVars >>

\* s/<n>: scroll speed
CmdSpeed(line) ==
  LET n == ToInt(SubstringFrom(line, 2)) IN
  /\ IF n = 0
     THEN scrolling' = FALSE /\ scroll_interval_ms' = 0
     ELSE IF n >= 1 /\ n <= 9
          THEN scrolling' = TRUE /\ scroll_interval_ms' = speedToInterval(n)
          ELSE UNCHANGED << scrolling, scroll_interval_ms >>
  /\ clockMode' = 0
  /\ UNCHANGED << msg, x, text_w, currentFont, tickerEnabled >>
  /\ UNCHANGED << tzOffsetMinutes, manualVars, wifiVars, schedVars, envVars >>

\* f/<c>: font
\* faulty variant: computeWidth is not called
CmdFont_StaleWidth(line) ==
  LET c == CharAt(line, 2) IN
  /\ currentFont' = IF c = "1" THEN F_SMALL
                    ELSE IF c = "2" THEN F_MEDIUM
                    ELSE IF c = "3" THEN F_LARGE
                    ELSE currentFont
  /\ UNCHANGED text_w
  /\ clockMode' = 0
  /\ UNCHANGED << msg, x, tickerEnabled, scrolling, scroll_interval_ms >>
  /\ UNCHANGED << tzOffsetMinutes, manualVars, wifiVars, schedVars, envVars >>

CmdFont(line) ==
  LET c == CharAt(line, 2) IN
  /\ currentFont' = IF c = "1" THEN F_SMALL
                    ELSE IF c = "2" THEN F_MEDIUM
                    ELSE IF c = "3" THEN F_LARGE
                    ELSE currentFont
  /\ text_w' = computeWidth(msg, currentFont')
  /\ clockMode' = 0
  /\ UNCHANGED << msg, x, tickerEnabled, scrolling, scroll_interval_ms >>
  /\ UNCHANGED << tzOffsetMinutes, manualVars, wifiVars, schedVars, envVars >>

\* ts/HH:MM:SS: manual time set (entered only when the line has >= 11 characters)
\* faulty variant: the hour test is HH <= 24
CmdTimeSet_Hour24(line) ==
  LET HH == ToInt(Substring(line, 3, 5))
      MM == ToInt(Substring(line, 6, 8))
      SS == ToInt(Substring(line, 9, 11))
      now == SysTime
      haveEpoch == epochValid(now)
      baseMidnight == IF haveEpoch THEN now - (now % SecondsPerDay) ELSE 0
  IN  /\ IF HH >= 0 /\ HH <= 24 /\ MM >= 0 /\ MM < 60 /\ SS >= 0 /\ SS < 60
         THEN /\ manualEpochBase' = baseMidnight + (HH * 3600 + MM * 60 + SS)
              /\ manualSetMillis' = Millis
              /\ manualClock' = TRUE
              /\ manualDateKnown' = haveEpoch
         ELSE UNCHANGED manualVars
      /\ clockMode' = 0
      /\ UNCHANGED << tickerVars, tzOffsetMinutes, wifiVars, schedVars, envVars >>

CmdTimeSet(line) ==
  LET HH == ToInt(Substring(line, 3, 5))
      MM == ToInt(Substring(line, 6, 8))
      SS == ToInt(Substring(line, 9, 11))
      now == SysTime
      haveEpoch == epochValid(now)
      baseMidnight == IF haveEpoch THEN now - (now % SecondsPerDay) ELSE 0
  IN  /\ IF HH >= 0 /\ HH < 24 /\ MM >= 0 /\ MM < 60 /\ SS >= 0 /\ SS < 60
         THEN /\ manualEpochBase' = baseMidnight + (HH * 3600 + MM * 60 + SS)
              /\ manualSetMillis' = Millis
              /\ manualClock' = TRUE
              /\ manualDateKnown' = haveEpoch
         ELSE UNCHANGED manualVars
      /\ clockMode' = 0
      /\ UNCHANGED << tickerVars, tzOffsetMinutes, wifiVars, schedVars, envVars >>

\* w/<ssid>
CmdWifiSsid(line) ==
  /\ WIFI_SSID' = SubstringFrom(line, 2)
  /\ prefs' = [ssid |-> WIFI_SSID', pass |-> WIFI_PASS]
  /\ clockMode' = 0
  /\ UNCHANGED << WIFI_PASS, wifiOK, wifiStatus >>
  /\ UNCHANGED << tickerVars, tzOffsetMinutes, manualVars, schedVars, envVars >>

\* wp/<pass>
CmdWifiPass(line) ==
  /\ WIFI_PASS' = SubstringFrom(line, 3)
  /\ prefs' = [ssid |-> WIFI_SSID, pass |-> WIFI_PASS']
  /\ clockMode' = 0
  /\ UNCHANGED << WIFI_SSID, wifiOK, wifiStatus >>
  /\ UNCHANGED << tickerVars, tzOffsetMinutes, manualVars, schedVars, envVars >>

\* wc/: connect now; the call returns when the wait loop of wifiConnect ends
CmdWifiConnect(line) ==
  /\ \E r \in wifiConnect(WIFI_SSID, wifiStatus, Millis) :
       /\ uptime' = uptime + r.d
       /\ wifiOK' = r.ok
       /\ wifiStatus' = r.link
  /\ clockMode' = 0
  /\ UNCHANGED << WIFI_SSID, WIFI_PASS, prefs, sysOffset >>
  /\ UNCHANGED << tickerVars, tzOffsetMinutes, manualVars, schedVars >>

\* wf/: forget the saved network
CmdWifiForget(line) ==
  /\ prefs' = [ssid |-> << >>, pass |-> << >>]
  /\ WIFI_SSID' = << >>
  /\ WIFI_PASS' = << >>
  /\ wifiStatus' = FALSE
  /\ wifiOK' = FALSE
  /\ clockMode' = 0
  /\ UNCHANGED << tickerVars, tzOffsetMinutes, manualVars, schedVars, envVars >>

\* plain text: new ticker message
CmdText(line) ==
  /\ msg' = line
  /\ x' = W
  /\ text_w' = computeWidth(msg', currentFont)
  /\ clockMode' = 0
  /\ UNCHANGED << currentFont, tickerEnabled, scrolling, scroll_interval_ms >>
  /\ UNCHANGED << tzOffsetMinutes, manualVars, wifiVars, schedVars, envVars >>

\* handleCommand(line): first matching prefix wins
handleCommand(line) ==
  IF StartsWith(line, << "t", "/" >>) THEN CmdClock(line)
  ELSE IF StartsWith(line, << "t", "z", "/" >>) THEN CmdTimezone(line)
  ELSE IF StartsWith(line, << "h", "/" >>) THEN CmdTicker(line)
  ELSE IF StartsWith(line, << "s", "/" >>) THEN CmdSpeed(line)
  ELSE IF StartsWith(line, << "f", "/" >>) THEN CmdFont(line)
  ELSE IF StartsWith(line, << "t", "s", "/" >>) /\ Len(line) >= 11 THEN CmdTimeSet(line)
  ELSE IF StartsWith(line, << "w", "/" >>) THEN CmdWifiSsid(line)
  ELSE IF StartsWith(line, << "w", "p", "/" >>) THEN CmdWifiPass(line)
  ELSE IF StartsWith(line, << "w", "c", "/" >>) THEN CmdWifiConnect(line)
  ELSE IF StartsWith(line, << "w", "f", "/" >>) THEN CmdWifiForget(line)
  ELSE CmdText(line)

\* ---------- Input lines ----------
\* signed decimal text of n
IntText(n) == IF n < 0 THEN << "-" >> \o Dec(0 - n) ELSE Dec(n)

TzLine(n) == << "t", "z", "/" >> \o IntText(n)
SpeedLine(n) == << "s", "/" >> \o IntText(n)
TsLine(hh, mm, ss) ==
  << "t", "s", "/" >> \o ZeroPad(Dec(hh), 2) \o << ":" >> \o ZeroPad(Dec(mm), 2)
    \o << ":" >> \o ZeroPad(Dec(ss), 2)

ClockLines ==
  { << "t", "/" >>, << "t", "/", "0" >>, << "t", "/", "1" >>, << "t", "/", "2" >>,
    << "t", "/", "x" >> }

TzLines == { TzLine(n) : n \in (0 - MaxTz)..MaxTz }
TzSome == { TzLine(-12), TzLine(14) }
TzMalformed == { << "t", "z", "/" >>, << "t", "z", "/", "a", "b", "c" >> }

TickerLines == { << "h", "/", "0" >>, << "h", "/", "1" >> }
TickerMalformed == { << "h", "/" >>, << "h", "/", "2" >> }

SpeedLines == { SpeedLine(n) : n \in 0..MaxSpeed }
SpeedSome == { SpeedLine(0), SpeedLine(9) }
SpeedMalformed == { << "s", "/" >>, << "s", "/", "x" >>, << "s", "/", "-", "1" >> }

FontLines == { << "f", "/", "1" >>, << "f", "/", "2" >>, << "f", "/", "3" >> }
FontMalformed == { << "f", "/" >>, << "f", "/", "4" >> }

\* times of day used to seed the manual clock
SeedTimes == { << 9, 5, 7 >>, << 0, 0, 0 >>, << 23, 59, 59 >> }
Tod(t) == t[1] * 3600 + t[2] * 60 + t[3]
TsLines == { TsLine(t[1], t[2], t[3]) : t \in SeedTimes }
\* numeric fields out of range
TsOutOfRange ==
  { TsLine(25, 0, 0), TsLine(24, 0, 0), TsLine(12, 60, 0), TsLine(12, 0, 60),
    << "t", "s", "/", "-", "1", ":", "0", "0", ":", "0", "0" >>,
    << "t", "s", "/", "1", "2", ":", "-", "5", ":", "0", "0" >> }
\* not an 8-character HH:MM:SS literal of digits
TsMalformed ==
  { << "t", "s", "/", "a", "b", ":", "c", "d", ":", "e", "f" >>,
    << "t", "s", "/", "1", "2", "x", "3", "4", "y", "5", "6" >>,
    << "t", "s", "/", "1", ":", "2", ":", "3" >> }

WifiLines ==
  { << "w", "/", "n" >>, << "w", "p", "/", "p" >>, << "w", "c", "/" >>, << "w", "f", "/" >> }

TextLines == { << "H", "i" >>, << "\t" >> }

MalformedLines ==
  TzMalformed \cup TickerMalformed \cup SpeedMalformed \cup FontMalformed \cup TsMalformed

\* one malformed line of each family, two of ts/
MalformedSome ==
  { << "t", "z", "/", "a", "b", "c" >>, << "h", "/", "2" >>, << "s", "/", "x" >>,
    << "f", "/", "4" >>,
    << "t", "s", "/", "a", "b", ":", "c", "d", ":", "e", "f" >>,
    << "t", "s", "/", "1", ":", "2", ":", "3" >> }

\* the lines Spec dispatches: every command family, well-formed and not
Lines ==
  ClockLines \cup TzSome \cup TickerLines \cup SpeedSome \cup FontLines
    \cup { TsLine(9, 5, 7), TsLine(25, 0, 0) }
    \cup MalformedSome \cup WifiLines \cup TextLines

\* ---------- Initial state: after setup() ----------
\* no frame was sent to the display
NoFrame == [kind |-> "none", text |-> << >>, pos |-> 0]

\* what the Preferences store may hold at boot
StoredCreds == { [ssid |-> << >>, pass |-> << >>], [ssid |-> << "n" >>, pass |-> << "p" >>] }

\* setup() has run; the host is about to send one of the scripts
Boot(scripts) ==
  \E saved \in StoredCreds :
    \E r \in wifiConnect(saved.ssid, FALSE, 0) :
      /\ prefs = saved
      /\ WIFI_SSID = saved.ssid
      /\ WIFI_PASS = saved.pass
      /\ wifiOK = r.ok
      /\ wifiStatus = r.link
      /\ uptime = r.d
      /\ sysOffset = 0
      /\ msg = InitMsg
      /\ inbuf = << >>
      /\ tickerEnabled = TRUE
      /\ scrolling = TRUE
      /\ scroll_interval_ms = 100
      /\ x = W
      /\ currentFont = F_SMALL
      /\ text_w = computeWidth(InitMsg, F_SMALL)
      /\ clockMode = 0
      /\ manualClock = FALSE
      /\ manualEpochBase = 0
      /\ manualSetMillis = 0
      /\ manualDateKnown = FALSE
      /\ tzOffsetMinutes = 0
      /\ t_now = r.d % TickModulus
      /\ t_nextFrame = TickAdd(t_now, FRAME_INTERVAL_MS)
      /\ t_nextScroll = TickAdd(t_now, scroll_interval_ms)
      /\ t_nextNtpCheck = TickAdd(t_now, NtpCheckMs)
      /\ lastLine = << >>
      /\ seed = [at |-> 0, tod |-> -1]
      /\ nCmd = 0
      /\ host \in scripts
      /\ rx = << >>
      /\ pc = "top"
      /\ calls = << >>
      /\ eaten = << >>
      /\ rendered = NoFrame
      /\ at = r.d
      /\ dueFrame = r.d + FRAME_INTERVAL_MS
      /\ dueScroll = r.d + scroll_interval_ms
      /\ dueNtp = r.d + NtpCheckMs
      /\ run = [t0 |-> r.d, I |-> scroll_interval_ms,
                 steady |-> TRUE, n |-> 0]
      /\ win = [on |-> TRUE, start |-> r.d, I |-> scroll_interval_ms, n |-> 0]

\* the host sends nothing
Init == Boot({ << >> })

\* ---------- Steps ----------
\* one handleCommand call, as handleSerial makes it for a complete line
Dispatch(line) ==
  /\ handleCommand(line)
  /\ lastLine' = line
  /\ seed' = IF line \in TsLines
             THEN [at |-> uptime,
                   tod |-> Tod(CHOOSE t \in SeedTimes : line = TsLine(t[1], t[2], t[3]))]
             ELSE seed
  /\ UNCHANGED frameVars

\* time passes (by one of the steps in S) while the uptime stays within cap
AdvanceTo(S, cap) ==
  /\ \E d \in S :
       /\ uptime + d <= cap
       /\ uptime' = uptime + d
  /\ UNCHANGED << tickerVars, clockMode, tzOffsetMinutes, manualVars, wifiVars, schedVars,
                  sysOffset, histVars, loopVars >>

\* time passes (by one of the steps in S)
Advance(S) == AdvanceTo(S, MaxUptime)

\* SNTP sets the system clock (only while the network is up, and forward)
NtpEpochs == { EpochThreshold - 1, EpochThreshold + 200000 }

NtpSync ==
  /\ wifiStatus
  /\ \E e \in NtpEpochs :
       /\ e > SysTime
       /\ sysOffset' = e - uptime \div 1000
  /\ UNCHANGED << tickerVars, clockMode, tzOffsetMinutes, manualVars, wifiVars, schedVars,
                  uptime, histVars, loopVars >>

\* ---------- loop() ----------
\* the host's next chunk of bytes arrives in the receive queue (the host
\* sends while setup() is at most until milliseconds back)
Receive(until) ==
  /\ host # << >>
  /\ uptime - run.t0 <= until
  /\ rx' = rx \o Head(host)
  /\ host' = Tail(host)
  /\ UNCHANGED << tickerVars, clockMode, tzOffsetMinutes, manualVars, wifiVars, schedVars,
                  envVars, histVars, pc, calls, eaten >>
  /\ UNCHANGED << rendered, at, dueFrame, dueScroll, dueNtp, run, win >>

\* t_now = millis(): an iteration begins (while setup() is at most cap
\* milliseconds back)
LoopBegin(cap) ==
  /\ pc = "top"
  /\ uptime - run.t0 <= cap
  /\ t_now' = Millis
  /\ at' = uptime
  /\ run' = [run EXCEPT !.steady = @ /\ uptime - at < run.I]
  /\ pc' = "serial"
  /\ UNCHANGED << tickerVars, clockMode, tzOffsetMinutes, manualVars, wifiVars, envVars,
                  histVars >>
  /\ UNCHANGED << inbuf, t_nextFrame, t_nextScroll, t_nextNtpCheck >>
  /\ UNCHANGED << host, rx, calls, eaten, rendered, dueFrame, dueScroll, dueNtp, win >>

\* the line buffer holds at most InbufCap characters; InbufDrop are dropped
InbufCap == 300
InbufDrop == 100

\* String::remove(0, count)
Remove0(s, count) ==
  IF count >= Len(s) THEN << >> ELSE SubSeq(s, count + 1, Len(s))

\* faulty variant: the newest characters are dropped
Feed_DropsNewest(buf, c) ==
  LET b == Append(buf, c)
  IN  IF Len(b) > InbufCap THEN SubSeq(b, 1, Len(b) - InbufDrop) ELSE b

\* inbuf += c; if (inbuf.length() > 300) inbuf.remove(0, 100);
Feed(buf, c) ==
  LET b == Append(buf, c)
  IN  IF Len(b) > InbufCap THEN Remove0(b, InbufDrop) ELSE b

\* faulty variant: carriage returns are kept
Skipped_None(c) == FALSE

\* if (c == '\r') continue;
Skipped(c) == c = "\r"

\* handleSerial: one pass of its while loop, which reads one byte; a newline
\* after a non-empty buffer calls handleCommand(inbuf)
SerialRead ==
  /\ pc = "serial"
  /\ rx # << >>
  /\ rx' = Tail(rx)
  /\ eaten' = Append(eaten, Head(rx))
  /\ IF Head(rx) = "\n" /\ inbuf # << >>
     THEN /\ Dispatch(inbuf)
          /\ calls' = Append(calls, inbuf)
          /\ pc' = "clear"
          /\ UNCHANGED nCmd
     ELSE /\ inbuf' = IF Skipped(Head(rx)) \/ Head(rx) = "\n" THEN inbuf
                      ELSE Feed(inbuf, Head(rx))
          /\ UNCHANGED << tickerVars, clockMode, tzOffsetMinutes, manualVars, wifiVars,
                          envVars, histVars, frameVars >>
          /\ UNCHANGED << t_now, t_nextFrame, t_nextScroll, t_nextNtpCheck, pc, calls >>

\* handleSerial: inbuf = "" once handleCommand has returned
SerialClear ==
  /\ pc = "clear"
  /\ inbuf' = << >>
  /\ pc' = "serial"
  /\ UNCHANGED << tickerVars, clockMode, tzOffsetMinutes, manualVars, wifiVars, envVars,
                  histVars, frameVars >>
  /\ UNCHANGED << t_now, t_nextFrame, t_nextScroll, t_nextNtpCheck, rx, calls, eaten >>

\* faulty variant: the tick is compared with the deadline directly
Reached_Naive(now, deadline) == now >= deadline

\* (int32_t)(now - deadline) >= 0
Reached(now, deadline) == TickSub(now, deadline) < TickModulus \div 2

\* faulty variant: the deadline is re-armed from the current tick
NextDeadline_FromNow(deadline, period, now) == TickAdd(now, period)

\* deadline += period (now is the tick of the iteration)
NextDeadline(deadline, period, now) == TickAdd(deadline, period)

\* the signed distance from tick b to tick a
SignedDiff(a, b) ==
  LET u == TickSub(a, b)
  IN  IF u < TickModulus \div 2 THEN u ELSE u - TickModulus

\* the uptime a deadline stands for, once its tick moved from old to new
Unwrap(due, old, new) == due + SignedDiff(new, old)

\* faulty variant: the offset is reset without the gap
ScrollStep_NoGap(px, w) == IF px - 1 < -w THEN W ELSE px - 1

\* x -= 1; if (x < -(text_w + GAP)) x = W;
ScrollStep(px, w) == IF px - 1 < -(w + GAP) THEN W ELSE px - 1

\* drawTickerFrame with the offset px: two copies of msg, GAP apart
drawTickerFrame(px) ==
  [kind |-> "ticker", text |-> << msg, msg >>, pos |-> px]

\* drawStaticFrame: msg centred
drawStaticFrame ==
  [kind |-> "static", text |-> << msg >>, pos |-> IF W - text_w < 0 THEN 0 ELSE (W - text_w) \div 2]

\* what drawClockFrame(mode) sends (pos is the baseline of the time)
ClockFrame(mode) ==
  [kind |-> "clock",
   text |-> IF mode = 2 THEN << drawClockFrame(mode).time, drawClockFrame(mode).date >>
            ELSE << drawClockFrame(mode).time >>,
   pos |-> IF mode = 1 THEN 26 ELSE 20]

\* the probe deadline (nothing is done when it fires)
ProbeTick ==
  /\ t_nextNtpCheck' = IF Reached(t_now, t_nextNtpCheck)
                       THEN NextDeadline(t_nextNtpCheck, NtpCheckMs, t_now)
                       ELSE t_nextNtpCheck
  /\ dueNtp' = Unwrap(dueNtp, t_nextNtpCheck, t_nextNtpCheck')

\* faulty variant: only clock mode 1 takes the clock branch
ClockTurn_Mode1Only == clockMode = 1

\* if (clockMode == 1 || clockMode == 2)
ClockTurn == clockMode = 1 \/ clockMode = 2

\* faulty variant: the clock display gives way to the ticker while the time
\* is unknown
ClockBranch_FallsBack ==
  /\ IF Reached(t_now, t_nextFrame)
     THEN /\ rendered' = ClockFrame(clockMode)
          /\ t_nextFrame' = NextDeadline(t_nextFrame, CLOCK_FRAME_MS, t_now)
     ELSE /\ rendered' = NoFrame
          /\ UNCHANGED t_nextFrame
  /\ dueFrame' = Unwrap(dueFrame, t_nextFrame, t_nextFrame')
  /\ run' = [run EXCEPT !.steady = FALSE]
  /\ win' = [on |-> FALSE, start |-> 0, I |-> 0, n |-> 0]
  /\ clockMode' = IF getEpochNow < 0 THEN 0 ELSE clockMode
  /\ UNCHANGED << x, t_nextScroll, dueScroll >>

\* the clock branch of loop(): a clock frame when the frame deadline fires
ClockBranch ==
  /\ IF Reached(t_now, t_nextFrame)
     THEN /\ rendered' = ClockFrame(clockMode)
          /\ t_nextFrame' = NextDeadline(t_nextFrame, CLOCK_FRAME_MS, t_now)
     ELSE /\ rendered' = NoFrame
          /\ UNCHANGED t_nextFrame
  /\ dueFrame' = Unwrap(dueFrame, t_nextFrame, t_nextFrame')
  /\ run' = [run EXCEPT !.steady = FALSE]
  /\ win' = [on |-> FALSE, start |-> 0, I |-> 0, n |-> 0]
  /\ UNCHANGED << x, t_nextScroll, dueScroll, clockMode >>

\* if (tickerEnabled && scrolling && scroll_interval_ms > 0)
Scrolling == tickerEnabled /\ scrolling /\ scroll_interval_ms > 0

\* the ticker branch of loop(): a scroll step when the scroll deadline fires,
\* then a ticker or static frame when the frame deadline fires
TickerBranch ==
  LET step == Scrolling /\ Reached(t_now, t_nextScroll)
      n == IF step THEN 1 ELSE 0
  IN  /\ x' = IF step THEN ScrollStep(x, text_w) ELSE x
      /\ t_nextScroll' = IF step
                         THEN NextDeadline(t_nextScroll, scroll_interval_ms, t_now)
                         ELSE t_nextScroll
      /\ dueScroll' = Unwrap(dueScroll, t_nextScroll, t_nextScroll')
      /\ IF Reached(t_now, t_nextFrame)
         THEN /\ rendered' = IF tickerEnabled THEN drawTickerFrame(x')
                             ELSE drawStaticFrame
              /\ t_nextFrame' = NextDeadline(t_nextFrame, FRAME_INTERVAL_MS, t_now)
         ELSE /\ rendered' = NoFrame
              /\ UNCHANGED t_nextFrame
      /\ dueFrame' = Unwrap(dueFrame, t_nextFrame, t_nextFrame')
      /\ run' = [run EXCEPT !.steady = @ /\ Scrolling /\ scroll_interval_ms = run.I,
                            !.n = @ + n]
      /\ win' = IF ~Scrolling THEN [on |-> FALSE, start |-> 0, I |-> 0, n |-> 0]
                ELSE IF win.on /\ win.I = scroll_interval_ms
                     THEN [win EXCEPT !.n = @ + n]
                     ELSE [on |-> TRUE, start |-> at, I |-> scroll_interval_ms, n |-> n]
      /\ UNCHANGED clockMode

\* loop() from the probe deadline to delay(1), once handleSerial has drained
\* the receive queue; the next iteration begins d milliseconds later
LoopSched(D) ==
  /\ pc = "serial"
  /\ rx = << >>
  /\ ProbeTick
  /\ IF ClockTurn THEN ClockBranch ELSE TickerBranch
  /\ \E d \in D : uptime' = uptime + d
  /\ pc' = "top"
  /\ UNCHANGED << msg, text_w, currentFont, tickerEnabled, scrolling, scroll_interval_ms >>
  /\ UNCHANGED << tzOffsetMinutes, manualVars, wifiVars, sysOffset, histVars >>
  /\ UNCHANGED << inbuf, t_now, host, rx, calls, eaten, at >>

\* ---------- Specifications ----------
\* Spec: at most MaxCmds lines of any command family
CountedDispatch ==
  /\ nCmd < MaxCmds
  /\ nCmd' = nCmd + 1
  /\ UNCHANGED serialVars
  /\ \E line \in Lines : Dispatch(line)

SecondStep == Advance({1000})

Next ==
  \/ CountedDispatch
  \/ SecondStep
  \/ NtpSync

Spec == Init /\ [][Next]_vars

\* SpecTz: any number of tz/ and t/ lines
TzDispatch ==
  /\ UNCHANGED << nCmd, serialVars >>
  /\ \E line \in TzLines \cup TzMalformed \cup ClockLines : Dispatch(line)

NextTz == TzDispatch

SpecTz == Init /\ [][NextTz]_vars

\* SpecSpeed: any number of s/ and h/ lines
SpeedDispatch ==
  /\ UNCHANGED << nCmd, serialVars >>
  /\ \E line \in SpeedLines \cup SpeedMalformed \cup TickerLines : Dispatch(line)

NextSpeed == SpeedDispatch

SpecSpeed == Init /\ [][NextSpeed]_vars

\* SpecTime: any number of ts/ and tz/ lines while time passes and SNTP may sync
TimeDispatch ==
  /\ UNCHANGED << nCmd, serialVars >>
  /\ \E line \in TsLines \cup TsOutOfRange \cup { TzLine(-12), TzLine(14) } : Dispatch(line)

SubSecondStep == Advance({500, 999})

NextTime ==
  \/ TimeDispatch
  \/ SubSecondStep
  \/ NtpSync

SpecTime == Init /\ [][NextTime]_vars

\* SpecLoop: loop() runs for MaxLoopUptime milliseconds while the host sends
\* one of LoopScripts and SNTP may sync
Ln(line) == line \o << "\n" >>
CrLf(line) == line \o << "\r", "\n" >>

LoopScripts ==
  { << Ln(<< "t", "/", "1" >>), Ln(<< "t", "/", "0" >>) >>,
    << << "t", "/" >>, CrLf(<< "2" >>) >>,
    << << "\n" >>, Ln(<< "H", "i" >>) >>,
    << Ln(<< "h", "/", "0" >>), Ln(<< "h", "/", "1" >>) >>,
    << Ln(SpeedLine(0)), Ln(SpeedLine(9)) >>,
    << Ln(<< "w", "c", "/" >>) >>,
    << Ln(<< "t", "/", "2" >>) \o Ln(<< "\t" >>) >> }

\* how long an iteration of loop() may take (delay(1) and the drawing)
LoopTimes == { 30, 90 }

InitLoop == Boot(LoopScripts)
LoopReceive == Receive(MaxLoopUptime)
LoopStart == LoopBegin(MaxLoopUptime)
LoopRun == LoopSched(LoopTimes)

NextLoop ==
  \/ LoopReceive
  \/ LoopStart
  \/ SerialRead
  \/ SerialClear
  \/ LoopRun
  \/ NtpSync

SpecLoop == InitLoop /\ [][NextLoop]_vars

\* SpecWrap: loop() runs until the tick counter has overflowed; the host sends
\* one of WrapScripts right after setup()
WrapScripts == { << >>, << Ln(<< "t", "/", "1" >>) >> }
WrapTimes == { 25 }
WrapHorizon == TickModulus + MaxLoopUptime

InitWrap == Boot(WrapScripts)
WrapReceive == Receive(0)
WrapStart == LoopBegin(WrapHorizon)
WrapRun == LoopSched(WrapTimes)

NextWrap ==
  \/ WrapReceive
  \/ WrapStart
  \/ SerialRead
  \/ SerialClear
  \/ WrapRun

SpecWrap == InitWrap /\ [][NextWrap]_vars

\* SpecScroll: loop() runs for MaxScrollUptime milliseconds, long enough for
\* the text to scroll off the display, while the host changes the font
ScrollScripts == { << Ln(<< "f", "/", "3" >>), Ln(<< "f", "/", "1" >>) >> }
ScrollTimes == { 50 }

InitScroll == Boot(ScrollScripts)
ScrollReceive == Receive(MaxScrollUptime)
ScrollStart == LoopBegin(MaxScrollUptime)
ScrollRun == LoopSched(ScrollTimes)

NextScroll ==
  \/ ScrollReceive
  \/ ScrollStart
  \/ SerialRead
  \/ SerialClear
  \/ ScrollRun

SpecScroll == InitScroll /\ [][NextScroll]_vars

\* SpecSerial: loop() runs while the host sends a line as long as, or longer
\* than, the line buffer
Junk(n) == [i \in 1 .. n |-> DigitChar(i % 10)]

SerialScripts ==
  { << << "t", "/", "1" >> \o Junk(InbufCap - 3), << "\n" >> >>,
    << Junk(2 * InbufDrop) \o << "t", "/", "2" >> \o Junk(InbufCap - InbufDrop - 2),
       << "\n" >> >> }
SerialTimes == { 90 }

InitSerial == Boot(SerialScripts)
SerialReceive == Receive(MaxLoopUptime)
SerialStart == LoopBegin(MaxLoopUptime)
SerialRun == LoopSched(SerialTimes)

NextSerial ==
  \/ SerialReceive
  \/ SerialStart
  \/ SerialRead
  \/ SerialClear
  \/ SerialRun

SpecSerial == InitSerial /\ [][NextSerial]_vars

\* SpecLive: loop() is scheduled again and again (weak fairness of its
\* steps) until the tick counter has overflowed, in iterations LiveTimes
\* apart, while the host sends one of LiveScripts at any time
EveryCommand ==
  Ln(<< "w", "/", "n" >>) \o Ln(<< "w", "p", "/", "p" >>) \o Ln(<< "w", "c", "/" >>)
    \o Ln(<< "t", "/", "1" >>) \o Ln(TzLine(14)) \o Ln(<< "h", "/", "0" >>)
    \o Ln(SpeedLine(9)) \o Ln(<< "f", "/", "2" >>) \o Ln(TsLine(9, 5, 7))
    \o Ln(<< "w", "f", "/" >>) \o Ln(<< "H", "i" >>)

LiveScripts == { << Ln(<< "w", "c", "/" >>) >>, << EveryCommand >> }
LiveTimes == { 4000 }

InitLive == Boot(LiveScripts)
LiveReceive == Receive(WrapHorizon)
LiveStart == LoopBegin(WrapHorizon)
LiveRun == LoopSched(LiveTimes)

NextLive ==
  \/ LiveReceive
  \/ LiveStart
  \/ SerialRead
  \/ SerialClear
  \/ LiveRun

SpecLive ==
  /\ InitLive
  /\ [][NextLive]_vars
  /\ WF_vars(SerialRead)
  /\ WF_vars(SerialClear)
  /\ WF_vars(LiveRun)

\* SpecLong: ts/ lines while time passes until the tick counter has overflowed
LongDispatch ==
  /\ UNCHANGED << nCmd, serialVars >>
  /\ \E line \in { TsLine(9, 5, 7), TsLine(23, 59, 59) } : Dispatch(line)

LongStep == AdvanceTo({ 2999, 8200 }, WrapHorizon)

NextLong ==
  \/ LongDispatch
  \/ LongStep

SpecLong == Init /\ [][NextLong]_vars

\* ---------- Properties ----------
Min(a, b) == IF a < b THEN a ELSE b
Max(a, b) == IF a > b THEN a ELSE b
IsClockLine(line) == Len(line) >= 2 /\ line[1] = "t" /\ line[2] = "/"

\* the step is a handleCommand call (its argument is then lastLine')
Called == Dispatch(lastLine')
\* the step is a handleCommand call with argument line
CalledWith(line) == lastLine' = line /\ Dispatch(line)

\* C1: every dispatch of a non-empty line that does not begin with t/ leaves
\* clockMode = Off (0), whatever the state before.
C1_NonClockForcesOff ==
  [][(Called /\ lastLine' # << >> /\ ~IsClockLine(lastLine')) => clockMode' = 0]_vars

\* C1 witness: three lines were dispatched, the last one h/0, and the clock is off.
C1_Witness ==
  /\ nCmd = MaxCmds
  /\ lastLine = << "h", "/", "0" >>
  /\ ~tickerEnabled
  /\ clockMode = 0

\* the clock mode a t/ line asks for: by its third character
ModeOf(line) ==
  IF Len(line) >= 3 /\ line[3] = "1" THEN 1
  ELSE IF Len(line) >= 3 /\ line[3] = "2" THEN 2
  ELSE 0

\* C2: a t/ line sets clockMode by its third character (1 -> TimeOnly,
\* 2 -> TimeAndDate, anything else or nothing -> Off) and changes no other
\* variable of the device: ticker, font, timezone, manual clock, credentials,
\* deadlines.
C2_ClockLineFrame ==
  [][(Called /\ IsClockLine(lastLine')) =>
       /\ clockMode' = ModeOf(lastLine')
       /\ UNCHANGED << tickerVars, tzOffsetMinutes, manualVars, wifiVars, schedVars >>]_vars

\* C2 witness: t/2 was dispatched after the message and the manual clock were set.
C2_Witness ==
  /\ lastLine = << "t", "/", "2" >>
  /\ clockMode = 2
  /\ msg = << "H", "i" >>
  /\ manualClock

Clamp(n, lo, hi) == Min(hi, Max(lo, n))

\* C3: for every n, tz/n leaves tzOffsetMinutes = 60 * min(14, max(-12, n)), and
\* tzOffsetMinutes is a multiple of 60 within [-720, 840] in every reachable state.
C3_TimezoneClamped ==
  /\ [][\A n \in (0 - MaxTz)..MaxTz :
          CalledWith(TzLine(n)) => tzOffsetMinutes' = 60 * Clamp(n, -12, 14)]_vars
  /\ [](tzOffsetMinutes % 60 = 0 /\ tzOffsetMinutes >= -720 /\ tzOffsetMinutes <= 840)

\* C3 witness: tz/15 was dispatched and the offset is the upper bound, 14 hours.
C3_Witness ==
  /\ lastLine = TzLine(15)
  /\ tzOffsetMinutes = 840

\* C4 as claimed: for every n in 1..9, s/n sets scrolling and the interval
\* min(100, max(5, 110 - 10 n)); s/0 clears scrolling.
C4_AsClaimed ==
  [][/\ \A n \in 1..9 :
          CalledWith(SpeedLine(n)) =>
            scrolling' /\ scroll_interval_ms' = Clamp(110 - 10 * n, 5, 100)
     /\ CalledWith(SpeedLine(0)) => ~scrolling']_vars

\* C4 amended: for every n in 1..8, s/n sets scrolling and the interval
\* 110 - 10 n; s/9 sets scrolling and the interval 5; s/0 clears scrolling.
C4_SpeedInterval ==
  [][/\ \A n \in 1..9 :
          CalledWith(SpeedLine(n)) =>
            scrolling' /\ scroll_interval_ms' = (IF n = 9 THEN 5 ELSE 110 - 10 * n)
     /\ CalledWith(SpeedLine(0)) => ~scrolling']_vars

\* C4 witness: s/9 was dispatched and the interval is 5 ms.
C4_Witness ==
  /\ lastLine = SpeedLine(9)
  /\ scrolling
  /\ scroll_interval_ms = 5

\* C5 as claimed: a line with a recognized prefix and a malformed argument
\* changes nothing but (possibly) clockMode.
C5_MalformedDropped ==
  [][\A line \in MalformedLines :
       CalledWith(line) =>
         UNCHANGED << msg, x, text_w, currentFont, tickerEnabled, scrolling,
                      scroll_interval_ms, tzOffsetMinutes, manualVars >>]_vars

\* C6: a ts/HH:MM:SS line with a field out of range leaves the four
\* manual-clock variables as they were.
C6_OutOfRangeKeepsManual ==
  [][\A line \in TsOutOfRange : CalledWith(line) => UNCHANGED manualVars]_vars

\* C6 witness: ts/25:00:00 was dispatched while a manual clock was seeded.
C6_Witness ==
  /\ lastLine = TsLine(25, 0, 0)
  /\ manualClock
  /\ manualEpochBase = Tod(<< 9, 5, 7 >>)

\* C7: with no validated network epoch, after ts/hh:mm:ss at tick b the
\* reading at tick t is hh*3600 + mm*60 + ss + floor((t - b) / 1000).
C7_ManualReading ==
  (seed.tod >= 0 /\ SysTime < EpochThreshold)
    => getEpochNow = seed.tod + (uptime - seed.at) \div 1000

\* C7 witness: 09:05:07 was seeded and between one and two seconds have passed.
C7_Witness ==
  /\ seed.tod = Tod(<< 9, 5, 7 >>)
  /\ SysTime < EpochThreshold
  /\ uptime - seed.at >= 1000
  /\ getEpochNow = Tod(<< 9, 5, 7 >>) + 1

Unknown == -1

C9_DatelessShowsSentinel ==
  (SysTime < EpochThreshold /\ manualClock /\ ~manualDateKnown)
    => /\ getDateStringISO = DatePlaceholder
       /\ drawClockFrame(2).date = DatePlaceholder
       /\ getClockString # TimePlaceholder

\* C10: text_w = max(1, measured width of msg in the current font), and so
\* text_w >= 1, after setup and after every command.
C10_WidthConsistent ==
  /\ text_w = Max(1, getUTF8Width(msg, currentFont))
  /\ text_w >= 1

\* C10 witness: f/3 was dispatched after the message became "Hi".
C10_Witness ==
  /\ lastLine = << "f", "/", "3" >>
  /\ msg = << "H", "i" >>
  /\ currentFont = F_LARGE
  /\ text_w = 13

\* the step is the scheduling part of a loop() iteration (after handleSerial)
Iterated == pc = "serial" /\ pc' = "top"
\* the step is a handleCommand call made by handleSerial
Dispatched == pc = "serial" /\ pc' = "clear"

\* C11: while clockMode is not Off, an iteration of loop() takes no scroll
\* step and renders no ticker or static frame (at most one clock frame), and
\* every step other than the dispatch of a command that is not t/ leaves
\* msg, x, text_w, currentFont, tickerEnabled, scrolling and
\* scroll_interval_ms unchanged, so they are the same when clockMode is Off
\* again
C11_ClockKeepsTicker ==
  [][clockMode # 0 =>
       /\ Iterated => /\ rendered'.kind \in {"none", "clock"}
                      /\ UNCHANGED << x, t_nextScroll >>
       /\ (Dispatched => IsClockLine(lastLine')) => UNCHANGED tickerVars]_vars

\* a clock frame was rendered in an iteration whose scroll deadline was due
C11_Witness ==
  /\ clockMode # 0
  /\ pc = "top"
  /\ rendered.kind = "clock"
  /\ Scrolling
  /\ Reached(t_now, t_nextScroll)

\* the bytes of s other than carriage returns
IsNotCR(c) == c # "\r"
NoCR(s) == SelectSeq(s, IsNotCR)
\* the positions of the newlines of b
Newlines(b) == { i \in 1 .. Len(b) : b[i] = "\n" }
\* where the line that ends before position i begins
LineStart(b, i) ==
  LET before == { j \in Newlines(b) : j < i }
  IN  IF before = {} THEN 1 ELSE (CHOOSE j \in before : \A k \in before : k <= j) + 1
\* the newline-terminated lines of b, in order, newlines excluded
CompleteLines(b) ==
  [k \in 1 .. Cardinality(Newlines(b)) |->
     LET i == CHOOSE j \in Newlines(b) : Cardinality({ m \in Newlines(b) : m <= j }) = k
     IN  SubSeq(b, LineStart(b, i), i - 1)]
\* the bytes of b after its last newline
Unterminated(b) == SubSeq(b, LineStart(b, Len(b) + 1), Len(b))
IsNotEmpty(s) == s # << >>
\* every line of the bytes read fits the line buffer
WithinCap(b) ==
  /\ Len(Unterminated(b)) <= InbufCap
  /\ \A k \in 1 .. Len(CompleteLines(b)) : Len(CompleteLines(b)[k]) <= InbufCap

\* C12 as claimed: every newline-terminated line read so far, the empty ones
\* included, was handed to handleCommand once, in order
C12_AsClaimed ==
  WithinCap(NoCR(eaten)) => calls = CompleteLines(NoCR(eaten))

\* C12: of the bytes read so far, every newline-terminated line that is not
\* empty once its carriage returns are removed was handed to handleCommand
\* exactly once, in order, without its carriage returns and newline (an empty
\* line causes no call), and the bytes after the last newline are held in
\* inbuf, not dispatched
C12_LinesDispatched ==
  WithinCap(NoCR(eaten)) =>
    /\ calls = SelectSeq(CompleteLines(NoCR(eaten)), IsNotEmpty)
    /\ pc # "clear" => inbuf = Unterminated(NoCR(eaten))
    /\ pc = "clear" => inbuf = calls[Len(calls)] /\ Unterminated(NoCR(eaten)) = << >>

\* a line that arrived in two chunks, ended by CR LF, was dispatched
C12_Witness ==
  /\ calls = << << "t", "/", "2" >> >>
  /\ eaten = << "t", "/", "2", "\r", "\n" >>
  /\ inbuf = << >>

\* the deadline armed in setup()
D0 == run.t0 + run.I
\* how many of the deadlines D0, D0 + I, D0 + 2I, ... are at or before t
StepsDue(t) == IF t < D0 THEN 0 ELSE (t - D0) \div run.I + 1

\* C13: a deadline that changes becomes its old value plus its period (2000
\* for the probe, 200 or 33 for the frame in clock or ticker display, the
\* scroll interval for the scroll), modulo the tick range; and while the run
\* has stayed in Scrolling with the interval of setup() and its iterations
\* were less than that interval apart, after each iteration the scroll steps
\* taken are exactly those whose deadline D0 + (k-1)*I the iteration's tick
\* has reached, the scroll deadline standing at D0 + n*I after n steps
C13_AdditiveDeadlines ==
  /\ [][/\ t_nextNtpCheck' # t_nextNtpCheck =>
             t_nextNtpCheck' = TickAdd(t_nextNtpCheck, NtpCheckMs)
        /\ t_nextFrame' # t_nextFrame =>
             t_nextFrame' = TickAdd(t_nextFrame,
                                    IF clockMode # 0 THEN CLOCK_FRAME_MS
                                    ELSE FRAME_INTERVAL_MS)
        /\ t_nextScroll' # t_nextScroll =>
             t_nextScroll' = TickAdd(t_nextScroll, scroll_interval_ms)]_vars
  /\ []((pc = "top" /\ run.steady) =>
          /\ run.n = StepsDue(at)
          /\ dueScroll = D0 + run.n * run.I
          /\ t_nextScroll = dueScroll % TickModulus)

\* three steps were taken on schedule, the third by an iteration that came
\* after its deadline
C13_Witness ==
  /\ pc = "top"
  /\ run.steady
  /\ run.n = 3
  /\ at > D0 + 2 * run.I

\* half the range of the tick counter
Half == TickModulus \div 2
\* when the uptime due that the stored deadline dl stands for is less than
\* Half away from the uptime of the iteration, the check of dl reports
\* reached exactly when that uptime is at or past due
CheckRight(dl, due) ==
  (at - due < Half /\ due - at < Half) => (Reached(t_now, dl) <=> at >= due)

\* C14: with the tick and the three deadlines held modulo the tick range,
\* each deadline check (int32_t)(t_now - deadline) >= 0 reports reached
\* exactly when the true time is at or past the true deadline, whenever the
\* two are less than half the tick range apart
C14_ChecksSurviveOverflow ==
  /\ t_now = at % TickModulus
  /\ t_nextNtpCheck = dueNtp % TickModulus
  /\ t_nextFrame = dueFrame % TickModulus
  /\ t_nextScroll = dueScroll % TickModulus
  /\ CheckRight(t_nextNtpCheck, dueNtp)
  /\ CheckRight(t_nextFrame, dueFrame)
  /\ CheckRight(t_nextScroll, dueScroll)

\* the scroll deadline has wrapped through 0, the tick has not yet: the
\* deadline is the smaller number and is not reported reached
C14_Witness ==
  /\ pc = "serial"
  /\ at < TickModulus
  /\ dueScroll >= TickModulus
  /\ dueScroll - at < Half
  /\ t_nextScroll < t_now
  /\ ~Reached(t_now, t_nextScroll)

\* the step is an iteration of loop() that took a scroll step
ScrollStepped == Iterated /\ run'.n = run.n + 1

\* C15: a scroll step decrements x by one and, if the result is below
\* -(text_w + GAP), sets it to W: a step taken with x already below that
\* limit resets x to W, and right after every step -(text_w + GAP) <= x <= W
C15_StepKeepsOffsetInRange ==
  [][ScrollStepped =>
       /\ x' = IF x - 1 < -(text_w + GAP) THEN W ELSE x - 1
       /\ x < -(text_w + GAP) => x' = W
       /\ -(text_w' + GAP) <= x'
       /\ x' <= W]_vars

\* f/3 then f/1 shrank the width while x was beyond the new limit: the step
\* that reset x found it below -(text_w + GAP)
C15_Witness ==
  /\ pc = "top"
  /\ x = W
  /\ calls = << << "f", "/", "3" >>, << "f", "/", "1" >> >>
  /\ run.n > W + text_w + GAP + 2
  /\ run.n < W + computeWidth(msg, F_LARGE) + GAP

\* C16: clockMode changes only in a handleCommand call: every other step of
\* loop(), with the probe, frame or scroll deadline firing or not, and every
\* change of the time source, leaves clockMode unchanged
C16_ModeChangesOnlyByCommand ==
  [][~Dispatched => UNCHANGED clockMode]_vars

\* the time source became valid while the clock was displayed: the frame
\* deadline fired and a clock frame showing the time was drawn
C16_Witness ==
  /\ pc = "top"
  /\ clockMode # 0
  /\ rendered.kind = "clock"
  /\ rendered.text[1] # TimePlaceholder
  /\ epochValid(SysTime)

\* s is the tail of t
IsSuffix(s, t) ==
  /\ Len(s) <= Len(t)
  /\ SubSeq(t, Len(t) - Len(s) + 1, Len(t)) = s
\* the non-empty lines of the bytes read so far, carriage returns removed
LinesRead == SelectSeq(CompleteLines(NoCR(eaten)), IsNotEmpty)

\* C17: inbuf never holds more than 300 characters; a byte appended to a
\* full buffer leaves it without exactly its 100 oldest characters, the
\* others in order; and every line handed to handleCommand is a suffix of
\* the line received (inbuf one of the unterminated bytes)
C17_BufferBounded ==
  /\ [](/\ Len(inbuf) <= InbufCap
        /\ Len(calls) = Len(LinesRead)
        /\ \A k \in 1 .. Len(calls) : IsSuffix(calls[k], LinesRead[k])
        /\ pc # "clear" => IsSuffix(inbuf, Unterminated(NoCR(eaten))))
  /\ [][(Len(inbuf) = InbufCap /\ inbuf' # inbuf /\ ~(pc = "clear")) =>
          inbuf' = SubSeq(inbuf, InbufDrop + 1, InbufCap) \o << Head(rx) >>]_vars

\* a line of 401 characters was cut twice and what is left of it dispatched
C17_Witness ==
  /\ Len(eaten) = InbufCap + InbufDrop + 2
  /\ calls = << << "t", "/", "2" >> \o Junk(InbufCap - InbufDrop - 2) >>
  /\ clockMode = 2

\* C18: every iteration of loop() that has begun reaches its delay(1),
\* whatever the state and the commands dispatched on the way (the bytes
\* pending are finitely many), and the wait of wc/ lasts at most 8000
\* milliseconds, exactly 8000 when the link did not come up, also when the
\* tick counter overflows during the wait
C18_NothingBlocks ==
  /\ (pc # "top") ~> (pc = "top")
  /\ [][(Dispatched /\ lastLine' = << "w", "c", "/" >> /\ WIFI_SSID # << >>) =>
          /\ uptime' - uptime <= ConnectTimeoutMs
          /\ ~wifiStatus' => uptime' - uptime = ConnectTimeoutMs]_vars

\* a wc/ wait that began before the tick counter overflowed has timed out
\* after it
C18_Witness ==
  /\ pc = "clear"
  /\ lastLine = << "w", "c", "/" >>
  /\ WIFI_SSID # << >>
  /\ ~wifiStatus
  /\ uptime >= TickModulus
  /\ uptime - ConnectTimeoutMs < TickModulus

\* C19 as claimed: since scrolling last resumed (or setup() armed it), with
\* the interval unchanged, the scroll steps taken number at most
\* floor(L / I) + 1, L being the time since then
C19_PacedAfterResume ==
  win.on => win.n <= (at - win.start) \div win.I + 1

\* the true time since the manual clock was seeded
SinceSeed == uptime - seed.at
\* the manual clock is the time source
ManualInUse == seed.tod >= 0 /\ ~epochValid(SysTime)

\* C20: the manual reading is the seed plus floor(d / 1000) for a true
\* elapsed time d below the tick range, also when the tick counter
\* overflowed since the seed, and does not decrease as d grows in that
\* range; from d = the tick range on it is computed from d modulo the range
C20_ManualClockUnderOverflow ==
  /\ [](ManualInUse =>
          /\ manualSetMillis = seed.at % TickModulus
          /\ SinceSeed < TickModulus => getEpochNow = seed.tod + SinceSeed \div 1000
          /\ SinceSeed >= TickModulus =>
               getEpochNow = seed.tod + (SinceSeed % TickModulus) \div 1000)
  /\ [][(ManualInUse /\ seed' = seed /\ uptime' - seed.at < TickModulus) =>
          getEpochNow' >= getEpochNow]_vars

\* the tick counter overflowed between the seed and the reading
C20_Witness ==
  /\ ManualInUse
  /\ SinceSeed < TickModulus
  /\ SinceSeed > 0
  /\ Millis < manualSetMillis

=============================================================================
